---------------------------- MODULE Spec2Model ----------------------------
(***************************************************************************)
(* Model of the Semgrep webhook receiver (src/receiver.py): the handler of *)
(* POST /receiver, the extraction of the GitHub routing context, the       *)
(* derivation of the summary text and the delivery of the PR comment.      *)
(*                                                                         *)
(* Representation.                                                         *)
(*  - A JSON value is a tagged record [t |-> tag, v |-> payload]; a JSON   *)
(*    string (and every Python str that is inspected) is a sequence of     *)
(*    atoms, so that the substring test and iteration act on its parts.    *)
(*    The inputs never split the marker 'no-components-in-core' across     *)
(*    atoms.                                                               *)
(*  - A header value that goes through int() is a sequence of characters.  *)
(*  - The summary is the sequence of the pieces appended by the            *)
(*    summary += f'...' statements: each piece is the f-string template    *)
(*    and the values interpolated into it. Emoji of the templates are      *)
(*    written as :shortcodes: and a backtick as a single quote.            *)
(*  - summary holds [t |-> "text", v |-> pieces] once derived.              *)
(*  - outbound is the log of the calls of requests.post made for the       *)
(*    request in hand, each with the outcome the network gave it.          *)
(*  - A Python call either returns or raises: [raised |-> FALSE, value]    *)
(*    or [raised |-> TRUE, exc].                                           *)
(***************************************************************************)
EXTENDS Integers, Sequences, FiniteSets, TLC

VARIABLES environ, request, pc, semgrep_data, github_context, summary,
          outbound, post_result, response, trace

vars == <<environ, request, pc, semgrep_data, github_context, summary,
          outbound, post_result, response, trace>>

-----------------------------------------------------------------------------
(* Bounds of the model *)

\* longest results array of a report given to the summary derivation
MaxResults == 6
\* longest errors array of a report given to the summary derivation
MaxErrors == 4
\* longest results array of a report that also carries errors
MaxMixed == 2

-----------------------------------------------------------------------------
(* Program constants *)

CriticalCap == 5
WarningCap == 3
ErrorCap == 3
HTTP_OK == 200
HTTP_CREATED == 201
HTTP_BAD_REQUEST == 400
HTTP_UNAUTHORIZED == 401

-----------------------------------------------------------------------------
(* JSON values and the Python operations the code applies to them *)

JNull == [t |-> "null"]
JBool(b) == [t |-> "bool", v |-> b]
JNum(n) == [t |-> "num", v |-> n]
JStr(s) == [t |-> "str", v |-> s]
JArr(a) == [t |-> "arr", v |-> a]
JObj(f) == [t |-> "obj", v |-> f]

EmptyFn == [x \in {} |-> x]

Min(a, b) == IF a < b THEN a ELSE b

Return(x) == [raised |-> FALSE, value |-> x]
Raise(e) == [raised |-> TRUE, exc |-> e]

\* hasattr(v, 'get'): only a dict has .get
HasGet(v) == v.t = "obj"

\* d.get(k, default) on a dict
Get(d, k, default) == IF k \in DOMAIN d.v THEN d.v[k] ELSE default

\* bool(v)
Truthy(v) ==
    CASE v.t = "null" -> FALSE
      [] v.t = "bool" -> v.v
      [] v.t = "num"  -> v.v # 0
      [] v.t = "str"  -> Len(v.v) > 0
      [] v.t = "arr"  -> Len(v.v) > 0
      [] v.t = "obj"  -> DOMAIN v.v # {}

\* iter(v) is defined
Iterable(v) == v.t \in {"arr", "str", "obj"}

RECURSIVE SetToSeq(_)
SetToSeq(S) ==
    IF S = {} THEN <<>>
    ELSE LET x == CHOOSE y \in S : TRUE IN <<x>> \o SetToSeq(S \ {x})

\* list(v): the elements of a list, the parts of a str, the keys of a dict
Items(v) ==
    CASE v.t = "arr" -> v.v
      [] v.t = "str" -> [i \in 1..Len(v.v) |-> JStr(<<v.v[i]>>)]
      [] v.t = "obj" -> [i \in 1..Cardinality(DOMAIN v.v) |->
                            JStr(<<SetToSeq(DOMAIN v.v)[i]>>)]

\* len(v)
PyLen(v) == Len(Items(v))

\* v[:n] is defined
Sliceable(v) == v.t \in {"arr", "str"}

\* s[:n]
Slice(s, n) == SubSeq(s, 1, Min(n, Len(s)))

\* hash(v) is defined, so that v can be a dict key
Hashable(v) == v.t \notin {"arr", "obj"}

\* a == b for two hashable values (True == 1 and False == 0 in Python)
KeyEq(a, b) ==
    IF a.t \in {"num", "bool"} /\ b.t \in {"num", "bool"}
    THEN (IF a.t = "bool" THEN (IF a.v THEN 1 ELSE 0) ELSE a.v)
       = (IF b.t = "bool" THEN (IF b.v THEN 1 ELSE 0) ELSE b.v)
    ELSE a = b

\* needle in str(v), for a needle that is one atom
StrContains(v, needle) == v.t = "str" /\ \E i \in 1..Len(v.v) : v.v[i] = needle

RECURSIVE Flatten(_)
Flatten(ss) == IF ss = <<>> THEN <<>> ELSE Head(ss) \o Flatten(Tail(ss))

-----------------------------------------------------------------------------
(* summarize_semgrep_results *)

\* one  summary += f"..."  statement: the template and the interpolated values
Piece(fmt, args) == [fmt |-> fmt, args |-> args]

NoIssuesText ==
    <<Piece(":white_check_mark: **Semgrep Security Scan Complete**\n\nNo issues found! Your code follows the defined security and architectural rules.", <<>>)>>

Severity(r) == Get(r, "severity", JNull)
CheckId(r) == Get(r, "check_id", JStr(<<"unknown">>))

\* [r for r in rs if r.get('severity') == sev]
BySeverity(rs, sev) == SelectSeq(rs, LAMBDA r : Severity(r) = JStr(<<sev>>))

\* the keys of issues_by_rule, in insertion order
RECURSIVE RuleKeys(_, _)
RuleKeys(rs, acc) ==
    IF rs = <<>> THEN acc
    ELSE LET k == CheckId(Head(rs))
         IN  RuleKeys(Tail(rs),
                      IF \E i \in 1..Len(acc) : KeyEq(acc[i], k)
                      THEN acc ELSE Append(acc, k))

\* issues_by_rule.items(): each rule identifier with its results in input order
IssuesByRule(rs) ==
    LET keys == RuleKeys(rs, <<>>)
    IN  [i \in 1..Len(keys) |->
            [rule_id |-> keys[i],
             rule_results |-> SelectSeq(rs, LAMBDA r : KeyEq(CheckId(r), keys[i]))]]

\* the file entry of one listed issue
FileEntry(issue) ==
    Piece("- '{}' (line {})\n",
          <<Get(issue, "path", JStr(<<"Unknown file">>)),
            Get(Get(issue, "start", JObj(EmptyFn)), "line", JStr(<<"?">>))>>)

FileEntries(issues) == [i \in 1..Len(issues) |-> FileEntry(issues[i])]

\* CriticalSection without the elision line after the listed files
CriticalSectionNoElision(rule) ==
    LET rule_critical == BySeverity(rule.rule_results, "ERROR")
    IN  IF rule_critical = <<>> THEN <<>>
        ELSE <<Piece("### '{}'\n", <<rule.rule_id>>),
               Piece("**Message:** {}\n\n",
                     <<Get(rule_critical[1], "message", JStr(<<"No message">>))>>),
               Piece("**Affected Files:**\n", <<>>)>>
             \o FileEntries(Slice(rule_critical, CriticalCap))
             \o <<Piece("\n", <<>>)>>

\* the section of one rule under "Critical Issues"
CriticalSection(rule) ==
    LET rule_critical == BySeverity(rule.rule_results, "ERROR")
    IN  IF rule_critical = <<>> THEN <<>>
        ELSE <<Piece("### '{}'\n", <<rule.rule_id>>),
               Piece("**Message:** {}\n\n",
                     <<Get(rule_critical[1], "message", JStr(<<"No message">>))>>),
               Piece("**Affected Files:**\n", <<>>)>>
             \o FileEntries(Slice(rule_critical, CriticalCap))
             \o (IF Len(rule_critical) > CriticalCap
                 THEN <<Piece("- ... and {} more files\n",
                              <<JNum(Len(rule_critical) - CriticalCap)>>)>>
                 ELSE <<>>)
             \o <<Piece("\n", <<>>)>>

\* WarningSection selecting the rule's results by the severity of the other tier
WarningSectionWrongSeverity(rule) ==
    LET rule_warnings == BySeverity(rule.rule_results, "ERROR")
    IN  IF rule_warnings = <<>> THEN <<>>
        ELSE <<Piece("### '{}'\n", <<rule.rule_id>>),
               Piece("**Files affected:** {}\n", <<JNum(Len(rule_warnings))>>)>>
             \o FileEntries(Slice(rule_warnings, WarningCap))
             \o (IF Len(rule_warnings) > WarningCap
                 THEN <<Piece("- ... and {} more\n",
                              <<JNum(Len(rule_warnings) - WarningCap)>>)>>
                 ELSE <<>>)
             \o <<Piece("\n", <<>>)>>

\* the section of one rule under "Warnings"
WarningSection(rule) ==
    LET rule_warnings == BySeverity(rule.rule_results, "WARNING")
    IN  IF rule_warnings = <<>> THEN <<>>
        ELSE <<Piece("### '{}'\n", <<rule.rule_id>>),
               Piece("**Files affected:** {}\n", <<JNum(Len(rule_warnings))>>)>>
             \o FileEntries(Slice(rule_warnings, WarningCap))
             \o (IF Len(rule_warnings) > WarningCap
                 THEN <<Piece("- ... and {} more\n",
                              <<JNum(Len(rule_warnings) - WarningCap)>>)>>
                 ELSE <<>>)
             \o <<Piece("\n", <<>>)>>

\* the issues of one rule whose 'start' is read: the listed ones
ListedIssues(rule, sev, cap) == Slice(BySeverity(rule.rule_results, sev), cap)

\* issue.get('start', {}).get('line', '?') raises for some listed issue of the tier
StartRaises(rules, sev, cap) ==
    \E i \in 1..Len(rules) :
        \E j \in 1..Len(ListedIssues(rules[i], sev, cap)) :
            ~HasGet(Get(ListedIssues(rules[i], sev, cap)[j], "start", JObj(EmptyFn)))

\* the text built once the report is known not to make the code raise
SummaryText(results, errors) ==
    LET rs == Items(results)
        critical_issues == BySeverity(rs, "ERROR")
        warnings == BySeverity(rs, "WARNING")
        info_issues == BySeverity(rs, "INFO")
        rules == IssuesByRule(rs)
    IN  <<Piece(":mag: **Semgrep Security & Architecture Scan Results**\n\n", <<>>),
          Piece("**Total Issues Found:** {}\n", <<JNum(PyLen(results))>>)>>
        \o (IF critical_issues # <<>>
            THEN <<Piece(":rotating_light: **Critical:** {}\n",
                         <<JNum(Len(critical_issues))>>)>> ELSE <<>>)
        \o (IF warnings # <<>>
            THEN <<Piece(":warning: **Warnings:** {}\n",
                         <<JNum(Len(warnings))>>)>> ELSE <<>>)
        \o (IF info_issues # <<>>
            THEN <<Piece(":information_source: **Info:** {}\n",
                         <<JNum(Len(info_issues))>>)>> ELSE <<>>)
        \o <<Piece("\n---\n\n", <<>>)>>
        \o (IF critical_issues # <<>>
            THEN <<Piece("## :rotating_light: Critical Issues (Must Fix)\n\n", <<>>)>>
                 \o Flatten([i \in 1..Len(rules) |-> CriticalSection(rules[i])])
            ELSE <<>>)
        \o (IF warnings # <<>>
            THEN <<Piece("## :warning: Warnings\n\n", <<>>)>>
                 \o Flatten([i \in 1..Len(rules) |-> WarningSection(rules[i])])
            ELSE <<>>)
        \o (IF \E i \in 1..Len(rs) :
                  StrContains(Get(rs[i], "check_id", JStr(<<>>)), "no-components-in-core")
            THEN <<Piece("## :wrench: Recommendations\n\n", <<>>),
                   Piece("**Architecture Violation Detected:**\n", <<>>),
                   Piece("- Components found in '_core/' directory\n", <<>>),
                   Piece("- Move components to appropriate feature modules\n", <<>>),
                   Piece("- Keep '_core/' for shared services, guards, and utilities only\n\n", <<>>)>>
            ELSE <<>>)
        \o (IF critical_issues # <<>>
            THEN <<Piece("## :clipboard: Action Items\n\n", <<>>),
                   Piece("- [ ] Fix all critical issues before merging\n", <<>>),
                   Piece("- [ ] Review architectural guidelines\n", <<>>),
                   Piece("- [ ] Run 'semgrep --config rules.yaml .' locally for detailed output\n", <<>>)>>
            ELSE <<>>)
        \o (IF Truthy(errors)
            THEN <<Piece("\n## :warning: Scan Errors\n\n", <<>>)>>
                 \o [i \in 1..Len(Slice(Items(errors), ErrorCap)) |->
                        Piece("- {}\n",
                              <<Get(Slice(Items(errors), ErrorCap)[i], "message",
                                    JStr(<<"Unknown error">>))>>)]
            ELSE <<>>)

\* ReportEmpty looking at the results only
ReportEmptyIgnoringErrors(results, errors) == ~Truthy(results)

\* not results and not errors
ReportEmpty(results, errors) == ~Truthy(results) /\ ~Truthy(errors)

\* summarize_semgrep_results(semgrep_data): the summary, or the first exception
summarize_semgrep_results(data) ==
    IF ~HasGet(data) THEN Raise("AttributeError")
    ELSE
    LET results == Get(data, "results", JArr(<<>>))
        errors == Get(data, "errors", JArr(<<>>))
    IN  CASE ReportEmpty(results, errors) -> Return(NoIssuesText)
          [] OTHER ->
             IF ~Iterable(results) THEN Raise("TypeError")
             ELSE
             LET rs == Items(results)
                 rules == IssuesByRule(rs)
             IN  CASE \E i \in 1..Len(rs) : ~HasGet(rs[i]) -> Raise("AttributeError")
                   [] \E i \in 1..Len(rs) : ~Hashable(CheckId(rs[i])) -> Raise("TypeError")
                   [] StartRaises(rules, "ERROR", CriticalCap) -> Raise("AttributeError")
                   [] StartRaises(rules, "WARNING", WarningCap) -> Raise("AttributeError")
                   [] Truthy(errors) /\ ~Sliceable(errors) -> Raise("TypeError")
                   [] Truthy(errors) /\ \E i \in 1..Len(Slice(Items(errors), ErrorCap)) :
                          ~HasGet(Slice(Items(errors), ErrorCap)[i]) -> Raise("AttributeError")
                   [] OTHER -> Return(SummaryText(results, errors))

-----------------------------------------------------------------------------
(* The process environment and the requests *)

\* os.environ.get(name) interpolated into an f-string: None prints as 'None'
EnvStr(env, name) == IF name \in DOMAIN env THEN env[name] ELSE "None"

\* bool(os.environ.get(name))
EnvTruthy(env, name) == name \in DOMAIN env /\ env[name] # ""

\* the mapping with the keys of present among name :> value
Opt(name, present, value) == IF present THEN name :> value ELSE EmptyFn

Environments ==
    { Opt("API_TOKEN", a # "<unset>", a) @@ Opt("GITHUB_TOKEN", g # "<unset>", g) :
        a \in {"<unset>", "s3cret"}, g \in {"<unset>", "", "ghp_tok"} }

AuthValues == {"<absent>", "Bearer s3cret", "Bearer wrong", "Bearer None", "s3cret"}
OwnerValues == {"<absent>", "", "acme"}
RepoValues == {"<absent>", "", "web"}
\* the pull-request header, character by character; <<"<absent>">> is no header
PRValues == { <<"<absent>">>, <<>>, <<"7">>, <<"4", "2">>, <<"-", "3">>,
              <<"1", "_", "0">>, <<"a", "b", "c">>, <<"4", "x">> }

HeaderSets ==
    { Opt("Authorization", a # "<absent>", a)
      @@ Opt("X-GitHub-Repository-Owner", o # "<absent>", o)
      @@ Opt("X-GitHub-Repository-Name", r # "<absent>", r)
      @@ Opt("X-GitHub-PR-Number", p # <<"<absent>">>, p) :
        a \in AuthValues, o \in OwnerValues, r \in RepoValues, p \in PRValues }

Str1(s) == JStr(<<s>>)

\* one result object of a report
Result(check_id, severity, path, line) ==
    JObj( "check_id" :> check_id @@ "severity" :> Str1(severity)
          @@ "path" :> Str1(path) @@ "message" :> Str1("msg")
          @@ "start" :> JObj("line" :> JNum(line)) )

\* request bodies: text that is not JSON, and JSON texts by the value they encode
Bodies ==
    { [garbage |-> "{not json"],
      [json |-> JNull],
      [json |-> JArr(<<>>)],
      [json |-> JObj(EmptyFn)],
      [json |-> JObj("results" :> JNull @@ "errors" :> JNull)],
      [json |-> JObj("results" :> JNum(5))],
      [json |-> JObj("results" :> JArr(<<Str1("finding")>>))],
      [json |-> JObj("results" :> JArr(<<Result(Str1("r1"), "ERROR", "a.ts", 3)>>))],
      [json |-> JObj("results" :> JArr(<<Result(Str1("r1"), "WARNING", "a.ts", 3),
                                         Result(JNull, "INFO", "b.ts", 9)>>)
                     @@ "errors" :> JArr(<<JObj("message" :> Str1("timeout"))>>))],
      [json |-> JObj("results" :> JArr(<<Result(JArr(<<Str1("r1")>>), "INFO", "a.ts", 3)>>))],
      [json |-> JObj("results" :> JArr(<<JObj("severity" :> Str1("ERROR")
                                              @@ "start" :> JNull)>>))],
      [json |-> JObj("errors" :> JArr(<<Str1("oops")>>))],
      [json |-> JObj("errors" :> JObj("message" :> Str1("oops")))] }

Requests == [headers : HeaderSets, body : Bodies]

\* the outcomes of requests.post(..., timeout=30): a response status, or an exception
PostOutcomes ==
    { [status_code |-> HTTP_CREATED], [status_code |-> HTTP_OK],
      [status_code |-> 403], [status_code |-> 500],
      [exc |-> "Timeout"], [exc |-> "ConnectionError"] }

-----------------------------------------------------------------------------
(* int(pr_number) *)

DigitChars == <<"0", "1", "2", "3", "4", "5", "6", "7", "8", "9">>
IsDigit(c) == \E i \in 1..Len(DigitChars) : DigitChars[i] = c
DigitValue(c) == (CHOOSE i \in 1..Len(DigitChars) : DigitChars[i] = c) - 1
IsSpace(c) == c \in {" ", "\t", "\n", "\r"}

RECURSIVE LStrip(_)
LStrip(s) == IF s # <<>> /\ IsSpace(Head(s)) THEN LStrip(Tail(s)) ELSE s
RECURSIVE RStrip(_)
RStrip(s) ==
    IF s # <<>> /\ IsSpace(s[Len(s)]) THEN RStrip(SubSeq(s, 1, Len(s) - 1)) ELSE s

\* digits, with single underscores allowed between two digits
IsDigitString(d) ==
    /\ d # <<>>
    /\ IsDigit(d[1]) /\ IsDigit(d[Len(d)])
    /\ \A i \in 1..Len(d) : IsDigit(d[i]) \/ d[i] = "_"
    /\ \A i \in 1..(Len(d) - 1) : ~(d[i] = "_" /\ d[i + 1] = "_")

RECURSIVE DigitsValue(_, _)
DigitsValue(d, acc) ==
    IF d = <<>> THEN acc
    ELSE DigitsValue(Tail(d), IF Head(d) = "_" THEN acc ELSE 10 * acc + DigitValue(Head(d)))

\* PyInt accepting digits only, no sign
PyIntUnsigned(s) ==
    LET t == RStrip(LStrip(s))
    IN  IF ~IsDigitString(t) THEN Raise("ValueError") ELSE Return(DigitsValue(t, 0))

\* int(s) for a str s
PyInt(s) ==
    LET t == RStrip(LStrip(s))
        signed == t # <<>> /\ Head(t) \in {"+", "-"}
        d == IF signed THEN Tail(t) ELSE t
    IN  IF ~IsDigitString(d) THEN Raise("ValueError")
        ELSE Return(IF signed /\ Head(t) = "-" THEN 0 - DigitsValue(d, 0)
                    ELSE DigitsValue(d, 0))

-----------------------------------------------------------------------------
(* extract_github_context *)

\* bool(request.headers.get(name)): the header is present and not empty
HeaderTruthy(headers, name, empty) == name \in DOMAIN headers /\ headers[name] # empty

\* ContextComplete testing the headers for presence, not for truth
ContextCompleteNotNone(headers) ==
    /\ "X-GitHub-Repository-Owner" \in DOMAIN headers
    /\ "X-GitHub-Repository-Name" \in DOMAIN headers
    /\ "X-GitHub-PR-Number" \in DOMAIN headers

\* all three routing headers are truthy
ContextComplete(headers) ==
    /\ HeaderTruthy(headers, "X-GitHub-Repository-Owner", "")
    /\ HeaderTruthy(headers, "X-GitHub-Repository-Name", "")
    /\ HeaderTruthy(headers, "X-GitHub-PR-Number", <<>>)

NoContext == [t |-> "None"]

\* extract_github_context(request): the context, None, or the exception of int()
extract_github_context(req) ==
    IF ContextComplete(req.headers)
    THEN LET n == PyInt(req.headers["X-GitHub-PR-Number"])
         IN  IF n.raised THEN n
             ELSE Return([t |-> "dict",
                          owner |-> req.headers["X-GitHub-Repository-Owner"],
                          repo |-> req.headers["X-GitHub-Repository-Name"],
                          pr_number |-> n.value])
    ELSE Return(NoContext)

-----------------------------------------------------------------------------
(* post_github_comment *)

\* TokenConfigured testing  GITHUB_TOKEN is not None
TokenConfiguredNotNone(env) == "GITHUB_TOKEN" \in DOMAIN env

\* not (not GITHUB_TOKEN)
TokenConfigured(env) == EnvTruthy(env, "GITHUB_TOKEN")

\* the requests.post call: URL parameters, credential header and JSON body
CommentCall(env, ctx, text) ==
    [owner |-> ctx.owner, repo |-> ctx.repo, pr_number |-> ctx.pr_number,
     authorization |-> "token " \o EnvStr(env, "GITHUB_TOKEN"),
     body |-> text]

\* DeliveryCalls posting a second time when the first post did not give 201
DeliveryCallsRetrying(env, ctx, text, outcome) ==
    IF "exc" \in DOMAIN outcome \/ outcome.status_code # 201
    THEN <<[owner |-> ctx.owner, repo |-> ctx.repo, pr_number |-> ctx.pr_number,
            authorization |-> "token " \o EnvStr(env, "GITHUB_TOKEN"), body |-> text],
           [owner |-> ctx.owner, repo |-> ctx.repo, pr_number |-> ctx.pr_number,
            authorization |-> "token " \o EnvStr(env, "GITHUB_TOKEN"), body |-> text]>>
    ELSE <<[owner |-> ctx.owner, repo |-> ctx.repo, pr_number |-> ctx.pr_number,
            authorization |-> "token " \o EnvStr(env, "GITHUB_TOKEN"), body |-> text]>>

\* the outbound calls made for one outcome of requests.post: one, never retried
DeliveryCalls(env, ctx, text, outcome) == <<CommentCall(env, ctx, text)>>

\* DeliveryResult without the except clause: the exception propagates
DeliveryResultPropagating(outcome) ==
    IF "exc" \in DOMAIN outcome THEN Raise(outcome.exc)
    ELSE Return(outcome.status_code = HTTP_CREATED)

\* what the try/except around requests.post returns
DeliveryResult(outcome) ==
    IF "exc" \in DOMAIN outcome THEN Return(FALSE)
    ELSE Return(outcome.status_code = HTTP_CREATED)

\* post_github_comment(github_context, summary): the calls made and the result
post_github_comment(env, ctx, text, outcome) ==
    IF ~TokenConfigured(env) THEN [calls |-> <<>>, result |-> Return(FALSE)]
    ELSE [calls |-> DeliveryCalls(env, ctx, text, outcome),
          result |-> DeliveryResult(outcome)]

-----------------------------------------------------------------------------
(* receive_semgrep: the handler of POST /receiver, one step per call it makes. *)
(* Requests share no mutable state (the environment is only read), so one      *)
(* request in hand at a time shows every behaviour of a request.               *)

Unset == [t |-> "unset"]
NoResponse == [t |-> "none"]

\* raise HTTPException(status_code=code, detail=detail)
HTTPException(code, detail) ==
    [t |-> "response", status_code |-> code, detail |-> detail]

\* JSONResponse(content={'status': 'success', 'message': ...})
SuccessResponse ==
    [t |-> "response", status_code |-> HTTP_OK,
     content |-> [status |-> "success", message |-> "Results received and processed"]]

\* Authorized accepting any Authorization header
AuthorizedAnyHeader(env, req) == "Authorization" \in DOMAIN req.headers

\* auth_header == f"Bearer {os.environ.get('API_TOKEN')}"
Authorized(env, req) ==
    /\ "Authorization" \in DOMAIN req.headers
    /\ req.headers["Authorization"] = "Bearer " \o EnvStr(env, "API_TOKEN")

\* request_json giving an empty report for a body that does not parse
request_json_silent(body) ==
    IF "json" \in DOMAIN body THEN Return(body.json) ELSE Return(JObj(EmptyFn))

\* await request.json()
request_json(body) ==
    IF "json" \in DOMAIN body THEN Return(body.json) ELSE Raise("JSONDecodeError")

\* except Exception as e: raise HTTPException(status_code=400, detail=str(e))
Fail(step, exc) ==
    /\ response' = HTTPException(HTTP_BAD_REQUEST, exc)
    /\ trace' = trace \o <<step, "response">>
    /\ pc' = "done"

\* a request arrives; the framework calls the handler
Receive ==
    /\ pc = "idle"
    /\ \E req \in Requests : request' = req
    /\ pc' = "auth"
    /\ UNCHANGED <<environ, semgrep_data, github_context, summary, outbound,
                   post_result, response, trace>>

AuthCheck ==
    /\ pc = "auth"
    /\ IF Authorized(environ, request)
       THEN /\ pc' = "json"
            /\ trace' = Append(trace, "auth")
            /\ UNCHANGED response
       ELSE /\ response' = HTTPException(HTTP_UNAUTHORIZED, "Unauthorized")
            /\ trace' = trace \o <<"auth", "response">>
            /\ pc' = "done"
    /\ UNCHANGED <<environ, request, semgrep_data, github_context, summary,
                   outbound, post_result>>

\* request.json(); the print of json.dumps(semgrep_data) that follows writes to
\* the log only and cannot fail on a value that was parsed from JSON
ParseBody ==
    /\ pc = "json"
    /\ LET r == request_json(request.body)
       IN  IF r.raised
           THEN Fail("json", r.exc) /\ UNCHANGED semgrep_data
           ELSE /\ semgrep_data' = r.value
                /\ pc' = "context"
                /\ trace' = Append(trace, "json")
                /\ UNCHANGED response
    /\ UNCHANGED <<environ, request, github_context, summary, outbound, post_result>>

ExtractContext ==
    /\ pc = "context"
    /\ LET r == extract_github_context(request)
       IN  IF r.raised
           THEN Fail("context", r.exc) /\ UNCHANGED github_context
           ELSE /\ github_context' = r.value
                /\ pc' = IF r.value = NoContext THEN "respond" ELSE "summarize"
                /\ trace' = Append(trace, "context")
                /\ UNCHANGED response
    /\ UNCHANGED <<environ, request, semgrep_data, summary, outbound, post_result>>

Summarize ==
    /\ pc = "summarize"
    /\ LET r == summarize_semgrep_results(semgrep_data)
       IN  IF r.raised
           THEN Fail("summary", r.exc) /\ UNCHANGED summary
           ELSE /\ summary' = [t |-> "text", v |-> r.value]
                /\ pc' = "post"
                /\ trace' = Append(trace, "summary")
                /\ UNCHANGED response
    /\ UNCHANGED <<environ, request, semgrep_data, github_context, outbound, post_result>>

PostComment ==
    /\ pc = "post"
    /\ \E outcome \in PostOutcomes :
         LET r == post_github_comment(environ, github_context, summary.v, outcome)
         IN  /\ outbound' = outbound \o [i \in 1..Len(r.calls) |->
                                            [call |-> r.calls[i], outcome |-> outcome]]
             /\ IF r.result.raised
                THEN Fail("post", r.result.exc) /\ UNCHANGED post_result
                ELSE /\ post_result' = JBool(r.result.value)
                     /\ pc' = "respond"
                     /\ trace' = Append(trace, "post")
                     /\ UNCHANGED response
    /\ UNCHANGED <<environ, request, semgrep_data, github_context, summary>>

Respond ==
    /\ pc = "respond"
    /\ response' = SuccessResponse
    /\ trace' = Append(trace, "response")
    /\ pc' = "done"
    /\ UNCHANGED <<environ, request, semgrep_data, github_context, summary,
                   outbound, post_result>>

\* the response is sent and the handler's locals are dropped: nothing is
\* kept from one request to the next
Finish ==
    /\ pc = "done"
    /\ pc' = "idle"
    /\ request' = Unset
    /\ semgrep_data' = Unset
    /\ github_context' = Unset
    /\ summary' = Unset
    /\ post_result' = Unset
    /\ outbound' = <<>>
    /\ response' = NoResponse
    /\ trace' = <<>>
    /\ UNCHANGED environ

Init ==
    /\ environ \in Environments
    /\ request = Unset
    /\ pc = "idle"
    /\ semgrep_data = Unset
    /\ github_context = Unset
    /\ summary = Unset
    /\ post_result = Unset
    /\ outbound = <<>>
    /\ response = NoResponse
    /\ trace = <<>>

Next ==
    \/ Receive
    \/ AuthCheck
    \/ ParseBody
    \/ ExtractContext
    \/ Summarize
    \/ PostComment
    \/ Respond
    \/ Finish

Spec == Init /\ [][Next]_vars

-----------------------------------------------------------------------------
(* The summary derivation on its own: reports drawn from bounded sets *)

\* the rule identifier (NoRule: no check_id key) and severity of a result
NoRule == [t |-> "absent"]
ResultKinds ==
    << <<Str1("r1"), "ERROR">>,
       <<JStr(<<"arch.", "no-components-in-core">>), "ERROR">>,
       <<Str1("r1"), "WARNING">>,
       <<JStr(<<"arch.", "no-components-in-core">>), "WARNING">>,
       <<NoRule, "INFO">> >>

\* the i-th result of a report: its path and line tell its position
ResultAt(kind, i) ==
    JObj( Opt("check_id", kind[1] # NoRule, kind[1])
          @@ "severity" :> Str1(kind[2])
          @@ "path" :> JStr(<<"src/f", DigitChars[i + 1]>>)
          @@ "message" :> JStr(<<"msg", DigitChars[i + 1]>>)
          @@ "start" :> JObj("line" :> JNum(10 * i)) )

\* the i-th scan error: every second one has no message
ErrorAt(i) ==
    JObj(Opt("message", i % 2 = 1, JStr(<<"scan error ", DigitChars[i + 1]>>)))

KindSeqs(n) == UNION { [1..k -> 1..Len(ResultKinds)] : k \in 0..n }

ResultsOf(ks) == JArr([i \in 1..Len(ks) |-> ResultAt(ResultKinds[ks[i]], i)])
ErrorsOf(n) == JArr([i \in 1..n |-> ErrorAt(i)])

\* the reports: no key at all; results only; few results with errors; errors only
IsReport(d) ==
    \/ d = JObj(EmptyFn)
    \/ \E ks \in KindSeqs(MaxResults) : d = JObj("results" :> ResultsOf(ks))
    \/ \E ks \in KindSeqs(MaxMixed), n \in 0..MaxErrors :
          d = JObj("results" :> ResultsOf(ks) @@ "errors" :> ErrorsOf(n))
    \/ \E n \in 0..MaxErrors : d = JObj("errors" :> ErrorsOf(n))

\* summarize_semgrep_results is about to be called on a report, outside of
\* any request
InitSummary ==
    /\ environ = EmptyFn
    /\ IsReport(semgrep_data)
    /\ request = Unset
    /\ github_context = Unset
    /\ pc = "summarize"
    /\ summary = Unset
    /\ post_result = Unset
    /\ outbound = <<>>
    /\ response = NoResponse
    /\ trace = <<>>

SpecSummary == InitSummary /\ [][Summarize]_vars

-----------------------------------------------------------------------------
(* Reading a summary back: tiers, rule sections and their entries *)

TopHeadings ==
    { "## :rotating_light: Critical Issues (Must Fix)\n\n", "## :warning: Warnings\n\n",
      "## :wrench: Recommendations\n\n", "## :clipboard: Action Items\n\n",
      "\n## :warning: Scan Errors\n\n" }

SetMin(S) == CHOOSE x \in S : \A y \in S : x <= y

\* the pieces from a top heading to the next top heading
Region(text, heading) ==
    LET starts == { i \in 1..Len(text) : text[i].fmt = heading }
    IN  IF starts = {} THEN <<>>
        ELSE LET i == SetMin(starts)
                 ends == { j \in (i + 1)..Len(text) : text[j].fmt \in TopHeadings }
                 e == IF ends = {} THEN Len(text) + 1 ELSE SetMin(ends)
             IN  SubSeq(text, i + 1, e - 1)

\* where the sections headed by rule identifier k start in a region
SectionStarts(region, k) ==
    { i \in 1..Len(region) : region[i].fmt = "### '{}'\n" /\ region[i].args = <<k>> }

\* the pieces of the section starting at i, up to its closing blank line
SectionBody(region, i) ==
    LET ends == { j \in (i + 1)..Len(region) : region[j].fmt = "\n" }
        e == IF ends = {} THEN Len(region) + 1 ELSE SetMin(ends)
    IN  SubSeq(region, i + 1, e - 1)

\* the <<path, line>> of the file entries among some pieces, in order
FileArgs(pieces) ==
    LET es == SelectSeq(pieces, LAMBDA p : p.fmt = "- '{}' (line {})\n")
    IN  [i \in 1..Len(es) |-> es[i].args]

\* the counts of the elision lines among some pieces
MoreArgs(pieces) ==
    LET es == SelectSeq(pieces, LAMBDA p :
                  p.fmt \in {"- ... and {} more files\n", "- ... and {} more\n"})
    IN  [i \in 1..Len(es) |-> es[i].args[1].v]

\* the report's results and errors arrays (absent: empty)
InResults == IF "results" \in DOMAIN semgrep_data.v THEN semgrep_data.v["results"].v ELSE <<>>
InErrors == IF "errors" \in DOMAIN semgrep_data.v THEN semgrep_data.v["errors"].v ELSE <<>>

\* a result's rule identifier ('unknown' when it has none), severity and entry
RuleOf(r) == IF "check_id" \in DOMAIN r.v THEN r.v["check_id"] ELSE JStr(<<"unknown">>)
SevOf(r) == r.v["severity"].v[1]
EntryOf(r) == <<r.v["path"], r.v["start"].v["line"]>>

\* the results of rule k and severity sev, in input order
Matching(k, sev) == SelectSeq(InResults, LAMBDA r : RuleOf(r) = k /\ SevOf(r) = sev)

InRules == { RuleOf(InResults[i]) : i \in 1..Len(InResults) }

TierHeading(sev) ==
    IF sev = "ERROR" THEN "## :rotating_light: Critical Issues (Must Fix)\n\n"
    ELSE "## :warning: Warnings\n\n"

\* the summary has been derived (the derivation returned)
Summarized == pc = "post"

\* In tier sev with cap c, the section of rule k lists the first min(n, c) of its
\* n results and has an elision line, for n - c more, exactly when n > c
SectionCapped(sev, c, k) ==
    LET ms == Matching(k, sev)
        n == Len(ms)
        region == Region(summary.v, TierHeading(sev))
        starts == SectionStarts(region, k)
    IN  n > 0 =>
          /\ Cardinality(starts) = 1
          /\ LET body == SectionBody(region, SetMin(starts))
             IN  /\ Len(FileArgs(body)) = Min(n, c)
                 /\ FileArgs(body) = [i \in 1..Min(n, c) |-> EntryOf(ms[i])]
                 /\ MoreArgs(body) = IF n > c THEN <<n - c>> ELSE <<>>

\* C7: in the summary, every rule with n results of a capped severity (cap 5 for
\* ERROR, 3 for WARNING) has in that tier one section listing exactly min(n, cap)
\* file entries, in input order, with an '... and N more' line iff n > cap, N = n - cap.
C7_CappedEntries ==
    Summarized =>
        \A k \in InRules : SectionCapped("ERROR", 5, k) /\ SectionCapped("WARNING", 3, k)

\* six ERROR results under one rule: five entries and one elision line for 1 more
C7_Witness ==
    /\ Summarized
    /\ Len(InResults) = 6
    /\ Len(Matching(Str1("r1"), "ERROR")) = 6
    /\ LET region == Region(summary.v, TierHeading("ERROR"))
           body == SectionBody(region, SetMin(SectionStarts(region, Str1("r1"))))
       IN  Len(FileArgs(body)) = 5 /\ MoreArgs(body) = <<1>>

\* C8: the summary is the fixed 'no issues found' text iff the report has no
\* results and no errors; with no results but some error it is the full report,
\* with a total of 0 and a scan-errors section.
C8_NoIssuesIff ==
    Summarized =>
        /\ (summary.v = NoIssuesText) <=> (InResults = <<>> /\ InErrors = <<>>)
        /\ (InResults = <<>> /\ InErrors # <<>>) =>
              /\ \E i \in 1..Len(summary.v) :
                    /\ summary.v[i].fmt = "**Total Issues Found:** {}\n"
                    /\ summary.v[i].args = <<JNum(0)>>
              /\ \E i \in 1..Len(summary.v) : summary.v[i].fmt = "\n## :warning: Scan Errors\n\n"

\* no results and one scan error: the full report form
C8_Witness ==
    /\ Summarized
    /\ InResults = <<>> /\ Len(InErrors) = 1
    /\ summary.v # NoIssuesText
    /\ \E i \in 1..Len(summary.v) : summary.v[i].fmt = "\n## :warning: Scan Errors\n\n"

\* a result's rule identifier heads a section of the tier of severity sev
HasSection(r, sev) ==
    SectionStarts(Region(summary.v, TierHeading(sev)), RuleOf(r)) # {}

\* C9, as stated: every result of severity ERROR, WARNING or INFO has its rule
\* identifier as a section heading (for INFO: as a section heading anywhere).
C9_EveryTierItemised ==
    Summarized =>
        \A i \in 1..Len(InResults) :
            LET r == InResults[i]
            IN  CASE SevOf(r) = "ERROR" -> HasSection(r, "ERROR")
                  [] SevOf(r) = "WARNING" -> HasSection(r, "WARNING")
                  [] SevOf(r) = "INFO" ->
                       \E j \in 1..Len(summary.v) :
                           summary.v[j].fmt = "### '{}'\n" /\ summary.v[j].args = <<RuleOf(r)>>
                  [] OTHER -> TRUE

\* C9, amended: every ERROR or WARNING result has its rule identifier as a
\* section heading in its tier; INFO results are counted in the overview and
\* none of them is listed as a file entry.
C9_CriticalAndWarningItemised ==
    Summarized =>
        /\ \A i \in 1..Len(InResults) :
              LET r == InResults[i]
              IN  CASE SevOf(r) = "ERROR" -> HasSection(r, "ERROR")
                    [] SevOf(r) = "WARNING" -> HasSection(r, "WARNING")
                    [] SevOf(r) = "INFO" ->
                         /\ \A j \in 1..Len(summary.v) :
                               summary.v[j].fmt = "- '{}' (line {})\n"
                                  => summary.v[j].args # EntryOf(r)
                         /\ \E j \in 1..Len(summary.v) :
                               /\ summary.v[j].fmt = ":information_source: **Info:** {}\n"
                               /\ summary.v[j].args[1].v >= 1
                    [] OTHER -> TRUE

\* a report with an ERROR, a WARNING and an INFO result has been summarized
C9_Witness ==
    /\ Summarized
    /\ \E i, j, k \in 1..Len(InResults) :
          /\ SevOf(InResults[i]) = "ERROR" /\ HasSection(InResults[i], "ERROR")
          /\ SevOf(InResults[j]) = "WARNING" /\ HasSection(InResults[j], "WARNING")
          /\ SevOf(InResults[k]) = "INFO"

-----------------------------------------------------------------------------
(* The handler's claims: what a request is, read from the request itself *)

InRequest == pc # "idle"
Answered == pc = "done"

ExpectedBearer ==
    "Bearer " \o (IF "API_TOKEN" \in DOMAIN environ THEN environ["API_TOKEN"] ELSE "None")

GoodBearer ==
    /\ "Authorization" \in DOMAIN request.headers
    /\ request.headers["Authorization"] = ExpectedBearer

BodyParses == "json" \in DOMAIN request.body

RoutingGiven ==
    /\ "X-GitHub-Repository-Owner" \in DOMAIN request.headers
    /\ request.headers["X-GitHub-Repository-Owner"] # ""
    /\ "X-GitHub-Repository-Name" \in DOMAIN request.headers
    /\ request.headers["X-GitHub-Repository-Name"] # ""
    /\ "X-GitHub-PR-Number" \in DOMAIN request.headers
    /\ request.headers["X-GitHub-PR-Number"] # <<>>

\* the pull-request header is an optionally signed decimal integer
PRIsInteger ==
    LET p == request.headers["X-GitHub-PR-Number"]
    IN  IsDigitString(IF p # <<>> /\ p[1] \in {"+", "-"} THEN Tail(p) ELSE p)

TokenGiven == "GITHUB_TOKEN" \in DOMAIN environ /\ environ["GITHUB_TOKEN"] # ""

Status(n) == response.t = "response" /\ response.status_code = n

FixedSuccess ==
    response = [t |-> "response", status_code |-> 200,
                content |-> [status |-> "success",
                             message |-> "Results received and processed"]]

\* the key of an object is absent or its value is an array of objects that pass ok
ArrayOfObjects(obj, key, ok(_)) ==
    key \in DOMAIN obj.v =>
        /\ obj.v[key].t = "arr"
        /\ \A i \in 1..Len(obj.v[key].v) :
              obj.v[key].v[i].t = "obj" /\ ok(obj.v[key].v[i])

\* a result whose rule identifier is a scalar and whose start is an object
PlainResult(r) ==
    /\ "check_id" \in DOMAIN r.v => r.v["check_id"].t \in {"str", "num", "bool", "null"}
    /\ "start" \in DOMAIN r.v => r.v["start"].t = "obj"

AnyObject(r) == TRUE

\* the body is a scan report of the shape of section 3 of the specification
WellFormedReport ==
    /\ request.body.json.t = "obj"
    /\ ArrayOfObjects(request.body.json, "results", PlainResult)
    /\ ArrayOfObjects(request.body.json, "errors", AnyObject)

\* C1: a request whose Authorization header is missing or is not the expected
\* bearer value is answered 401, and nothing else is done for it: no body is
\* parsed, no context or summary derived, no outbound call made.
C1_Unauthorized ==
    (InRequest /\ ~GoodBearer) =>
        /\ outbound = <<>>
        /\ semgrep_data = Unset /\ github_context = Unset /\ summary = Unset
        /\ pc \in {"auth", "done"}
        /\ Answered => Status(401) /\ response.detail = "Unauthorized"

\* a wrong bearer with an unparseable body, all routing headers and a credential
C1_Witness ==
    /\ Answered /\ Status(401) /\ outbound = <<>>
    /\ "Authorization" \in DOMAIN request.headers /\ ~GoodBearer
    /\ ~BodyParses /\ RoutingGiven /\ TokenGiven

\* C2: an authorized request whose body is not JSON is answered 400 and no
\* outbound call is made, also with all routing headers and a credential.
C2_BadJson ==
    (InRequest /\ GoodBearer /\ ~BodyParses) =>
        /\ outbound = <<>>
        /\ summary = Unset
        /\ Answered => Status(400)

C2_Witness ==
    /\ Answered /\ Status(400) /\ outbound = <<>>
    /\ GoodBearer /\ ~BodyParses /\ RoutingGiven /\ PRIsInteger /\ TokenGiven

\* C3, as stated: every authorized request with a parseable JSON body receives
\* the 200 fixed success payload, whatever the routing headers and the body shape.
C3_ParseableAlwaysSuccess ==
    (Answered /\ GoodBearer /\ BodyParses) => FixedSuccess

\* C3, amended: the outcomes are 401, 400 and 200; an authorized request with a
\* parseable body receives the 200 payload when a routing header is missing or
\* empty, or when the pull-request header is an integer and the body is a
\* well-formed report; with all routing headers given it receives 400 when the
\* pull-request header is not an integer, when the body is not a JSON object,
\* or when an entry of its results array is not an object.
C3_SuccessUnlessProcessingFails ==
    Answered =>
        /\ Status(200) \/ Status(400) \/ Status(401)
        /\ Status(401) <=> ~GoodBearer
        /\ (GoodBearer /\ BodyParses) =>
              /\ (~RoutingGiven \/ (PRIsInteger /\ WellFormedReport)) => FixedSuccess
              /\ (RoutingGiven /\ ~PRIsInteger) => Status(400)
              /\ (RoutingGiven /\ request.body.json.t # "obj") => Status(400)
              /\ (/\ RoutingGiven
                  /\ request.body.json.t = "obj"
                  /\ "results" \in DOMAIN request.body.json.v
                  /\ request.body.json.v["results"].t = "arr"
                  /\ \E i \in 1..Len(request.body.json.v["results"].v) :
                        request.body.json.v["results"].v[i].t # "obj") => Status(400)

\* a parseable body with all routing headers and a signed pull-request number
C3_Witness ==
    /\ Answered /\ FixedSuccess
    /\ GoodBearer /\ BodyParses /\ RoutingGiven
    /\ request.headers["X-GitHub-PR-Number"] = <<"-", "3">>
    /\ WellFormedReport
    /\ "results" \in DOMAIN request.body.json.v

\* C4: an authorized request with a parseable body and a routing header missing
\* or empty makes no outbound call and receives the fixed success payload.
C4_IncompleteRouting ==
    (InRequest /\ GoodBearer /\ BodyParses /\ ~RoutingGiven) =>
        /\ outbound = <<>>
        /\ Answered => FixedSuccess

\* owner and repository given, the pull-request header empty
C4_Witness ==
    /\ Answered /\ FixedSuccess /\ outbound = <<>>
    /\ GoodBearer /\ BodyParses /\ TokenGiven
    /\ "X-GitHub-Repository-Owner" \in DOMAIN request.headers
    /\ request.headers["X-GitHub-Repository-Owner"] = "acme"
    /\ "X-GitHub-Repository-Name" \in DOMAIN request.headers
    /\ request.headers["X-GitHub-Repository-Name"] = "web"
    /\ "X-GitHub-PR-Number" \in DOMAIN request.headers
    /\ request.headers["X-GitHub-PR-Number"] = <<>>

\* the delivery did not succeed: an exception, or a status other than 201
Failed(outcome) == "exc" \in DOMAIN outcome \/ outcome.status_code # 201

\* C5: when the delivery was attempted, the answer is the 200 fixed success
\* payload, whether the call gave 201, another status or an exception.
C5_DeliveryFailureSwallowed ==
    (Answered /\ outbound # <<>>) => FixedSuccess

\* the outbound call timed out
C5_Witness ==
    /\ Answered /\ FixedSuccess
    /\ Len(outbound) = 1
    /\ "exc" \in DOMAIN outbound[1].outcome
    /\ outbound[1].outcome.exc = "Timeout"

\* C6, as stated: without GITHUB_TOKEN no outbound call is made, and an
\* authorized request with a parseable body and complete routing headers
\* receives the 200 fixed success payload.
C6_NoTokenAlwaysSuccess ==
    (InRequest /\ ~TokenGiven) =>
        /\ outbound = <<>>
        /\ (Answered /\ GoodBearer /\ BodyParses /\ RoutingGiven) => FixedSuccess

\* C6, amended: without GITHUB_TOKEN (unset or empty) no outbound call is made,
\* and an authorized request with a well-formed report and complete routing
\* headers whose pull-request number is an integer receives the 200 payload.
C6_NoTokenNoDelivery ==
    (InRequest /\ ~TokenGiven) =>
        /\ outbound = <<>>
        /\ (Answered /\ GoodBearer /\ BodyParses /\ RoutingGiven
              /\ PRIsInteger /\ WellFormedReport) => FixedSuccess

\* the summary was derived and post_github_comment returned without a call
C6_Witness ==
    /\ Answered /\ FixedSuccess /\ outbound = <<>>
    /\ ~TokenGiven /\ "GITHUB_TOKEN" \in DOMAIN environ
    /\ GoodBearer /\ BodyParses /\ RoutingGiven /\ PRIsInteger /\ WellFormedReport
    /\ summary # Unset /\ post_result = JBool(FALSE)

\* C10: a request causes at most one outbound call, never repeated after a
\* failure; the call is made after the authorization check, the parsing, the
\* routing extraction and the summary derivation succeeded, it carries that
\* summary, and the response is produced only after it.
C10_AtMostOneCall ==
    /\ Len(outbound) <= 1
    /\ outbound # <<>> =>
          /\ SubSeq(trace, 1, 5) = <<"auth", "json", "context", "summary", "post">>
          /\ GoodBearer /\ BodyParses /\ RoutingGiven
          /\ github_context.t = "dict"
          /\ summary # Unset /\ outbound[1].call.body = summary.v
          /\ pc \in {"respond", "done"}
          /\ pc = "respond" => response = NoResponse
          /\ pc = "done" => trace = <<"auth", "json", "context", "summary", "post", "response">>

\* the one call was answered 500 and the request is answered
C10_Witness ==
    /\ Answered
    /\ Len(outbound) = 1
    /\ "status_code" \in DOMAIN outbound[1].outcome
    /\ outbound[1].outcome.status_code = 500
    /\ trace = <<"auth", "json", "context", "summary", "post", "response">>

=============================================================================
